---------------------------- MODULE Spec2Model ----------------------------
(***************************************************************************)
(* A model of rustic_json: the recursive-descent JSON parser               *)
(* (src/src/parse/helper.rs), the serializer (src/src/stringify.rs), the   *)
(* finite-number wrapper (src/src/num.rs) and the value tree and escape    *)
(* tables (src/src/lib.rs).                                                *)
(*                                                                         *)
(* Text is a sequence of Unicode scalar values (code points, as naturals): *)
(* a Rust `char` is its code point, a `&str` the sequence of its chars.    *)
(***************************************************************************)
EXTENDS Integers, Sequences, FiniteSets, TLC

\* `let v = ..;` : the value is bound once and used by name.
With(v, K(_)) == K(v)

(***************************************************************************)
(* Characters.  Ch["x"] is the code point of the ASCII character 'x'; the   *)
(* table lists U+0020..U+007E in order, "grave" standing for U+0060.       *)
(***************************************************************************)
Printable ==
    << " ", "!", "\"", "#", "$", "%", "&", "'", "(", ")", "*", "+", ",", "-",
       ".", "/", "0", "1", "2", "3", "4", "5", "6", "7", "8", "9", ":", ";",
       "<", "=", ">", "?", "@", "A", "B", "C", "D", "E", "F", "G", "H", "I",
       "J", "K", "L", "M", "N", "O", "P", "Q", "R", "S", "T", "U", "V", "W",
       "X", "Y", "Z", "[", "\\", "]", "^", "_", "grave", "a", "b", "c", "d", "e",
       "f", "g", "h", "i", "j", "k", "l", "m", "n", "o", "p", "q", "r", "s",
       "t", "u", "v", "w", "x", "y", "z", "{", "|", "}", "~" >>

Ch ==
    [s \in {Printable[i] : i \in 1..Len(Printable)} |->
        31 + (CHOOSE i \in 1..Len(Printable) : Printable[i] = s)]

\* The text of an ASCII literal given as the sequence of its characters.
Lit(s) == [i \in 1..Len(s) |-> Ch[s[i]]]

CHAR_LF == 10
CHAR_CR == 13
CHAR_TAB == 9
CHAR_BS == 8
CHAR_FF == 12

Digits == Ch["0"]..Ch["9"]

\* Option<T>
None == [some |-> FALSE]
Some(x) == [some |-> TRUE, val |-> x]

\* char::to_digit(16): the value of a hexadecimal digit.
to_digit_16(c) ==
    IF c \in Ch["0"]..Ch["9"] THEN Some(c - Ch["0"])
    ELSE IF c \in Ch["a"]..Ch["f"] THEN Some(c - Ch["a"] + 10)
    ELSE IF c \in Ch["A"]..Ch["F"] THEN Some(c - Ch["A"] + 10)
    ELSE None

\* The length of the longest prefix of cs made of characters of set.
RECURSIVE SpanLen(_, _)
SpanLen(cs, set) ==
    IF cs # << >> /\ Head(cs) \in set THEN 1 + SpanLen(Tail(cs), set) ELSE 0

Drop(cs, n) == SubSeq(cs, n + 1, Len(cs))

Take(cs, n) == SubSeq(cs, 1, n)

\* Lexicographic order on sequences of naturals (Ord of str, of digit runs).
RECURSIVE SeqLess(_, _)
SeqLess(a, b) ==
    IF b = << >> THEN FALSE
    ELSE IF a = << >> THEN TRUE
    ELSE IF Head(a) # Head(b) THEN Head(a) < Head(b)
    ELSE SeqLess(Tail(a), Tail(b))

(***************************************************************************)
(* Escape tables (lib.rs, escape_tables!).                                 *)
(***************************************************************************)
MIN_VALID_STRING_CHAR == 32

\* The pairs escape: raw of the macro invocation, then the extra '/'.
EscapePairs ==
    << <<Ch["\""], Ch["\""]>>, <<Ch["\\"], Ch["\\"]>>, <<Ch["b"], CHAR_BS>>,
       <<Ch["f"], CHAR_FF>>, <<Ch["n"], CHAR_LF>>, <<Ch["r"], CHAR_CR>>,
       <<Ch["t"], CHAR_TAB>> >>

EscapeExtra == << Ch["/"] >>

PARSE_ESCAPE ==
    [b \in 0..255 |->
        IF \E i \in 1..Len(EscapePairs) : EscapePairs[i][1] = b
        THEN Some(EscapePairs[CHOOSE i \in 1..Len(EscapePairs) :
                                  EscapePairs[i][1] = b][2])
        ELSE IF \E i \in 1..Len(EscapeExtra) : EscapeExtra[i] = b THEN Some(b)
        ELSE None]

STRINGIFY_ESCAPE ==
    [b \in 0..255 |->
        IF \E i \in 1..Len(EscapePairs) : EscapePairs[i][2] = b
        THEN Some(EscapePairs[CHOOSE i \in 1..Len(EscapePairs) :
                                  EscapePairs[i][2] = b][1])
        ELSE None]

(***************************************************************************)
(* Scan state (parse/helper.rs, mod internal).  `chars` is what the        *)
(* Peekable<Chars> iterator has not yielded yet.  `asserts` records that   *)
(* no expectation of skip_char has failed so far: `expect("should have     *)
(* just peeked")` and debug_assert_eq!(next, peeked).                      *)
(***************************************************************************)
ONE == 1

State_new(str) ==
    [chars |-> str, position |-> [line |-> ONE, column |-> ONE], asserts |-> TRUE]

\* ParseError { kind, position }, stamped with the current position.
error(st, kind) == [kind |-> kind, position |-> st.position]

\* Result values: Ok(val) and Err(err), each with the scan state left behind.
Ok(v, st) == [ok |-> TRUE, val |-> v, st |-> st]
Err(e, st) == [ok |-> FALSE, err |-> e, st |-> st]

\* The `?` operator: an Err returns at once, an Ok goes on with its value.
Try(r, K(_, _)) == IF r.ok THEN K(r.val, r.st) ELSE r

\* peek_char reporting the end of input at the start of its line.
peek_char_line_start(st) ==
    IF st.chars # << >> THEN Ok(Head(st.chars), st)
    ELSE Err([kind |-> "PrematureEof",
              position |-> [line |-> st.position.line, column |-> ONE]], st)

peek_char(st) ==
    IF st.chars # << >> THEN Ok(Head(st.chars), st)
    ELSE Err(error(st, "PrematureEof"), st)

\* advance taking a carriage return for a line break too.
advance_cr(position, next) ==
    IF next \in {CHAR_LF, CHAR_CR}
    THEN [line |-> position.line + 1, column |-> ONE]
    ELSE [line |-> position.line, column |-> position.column + 1]

\* The position after the char `next` is consumed.
advance(position, next) ==
    IF next = CHAR_LF
    THEN [line |-> position.line + 1, column |-> ONE]
    ELSE [line |-> position.line, column |-> position.column + 1]

skip_char(st, peeked) ==
    IF st.chars = << >> THEN [st EXCEPT !.asserts = FALSE]
    ELSE [chars |-> Tail(st.chars),
          position |-> advance(st.position, Head(st.chars)),
          asserts |-> st.asserts /\ Head(st.chars) = peeked]

(***************************************************************************)
(* Finite numbers (num.rs).  An f64 is modelled by the decimal it prints   *)
(* as: sign, significant digits d1 d2 .. dn (d1 # 0, dn # 0; none for      *)
(* zero) and scientific exponent sci, of value d1.d2..dn * 10^sci, or by   *)
(* an infinity.  Decimals of at most 15 significant digits in the normal   *)
(* range are distinct f64 values that print back as themselves.            *)
(***************************************************************************)
\* The leading digits of 2^1024 - 2^970 = 1.79769313486231580793..e308:
\* a decimal at or above it rounds to infinity.
F64_OVERFLOW == <<1, 7, 9, 7, 6, 9, 3, 1, 3, 4, 8, 6, 2, 3, 1, 5, 8, 0, 7, 9, 3>>
F64_MAX_10_EXP == 308
\* Below 10^-324 (< 2^-1075) a decimal rounds to zero.
F64_ZERO_10_EXP == -324

RECURSIVE StripLeadingZeros(_)
StripLeadingZeros(ds) ==
    IF ds # << >> /\ Head(ds) = 0 THEN StripLeadingZeros(Tail(ds)) ELSE ds

RECURSIVE StripTrailingZeros(_)
StripTrailingZeros(ds) ==
    IF ds # << >> /\ ds[Len(ds)] = 0
    THEN StripTrailingZeros(Take(ds, Len(ds) - 1)) ELSE ds

\* The value of a run of decimal digit characters.
RECURSIVE DecimalValue(_)
DecimalValue(cs) ==
    IF cs = << >> THEN 0
    ELSE 10 * DecimalValue(Take(cs, Len(cs) - 1)) + (cs[Len(cs)] - Ch["0"])

\* The value of an optional sign and a run of decimal digit characters.
SignedValue(cs) ==
    IF cs # << >> /\ Head(cs) = Ch["-"] THEN 0 - DecimalValue(Tail(cs))
    ELSE IF cs # << >> /\ Head(cs) = Ch["+"] THEN DecimalValue(Tail(cs))
    ELSE DecimalValue(cs)

f64_zero(neg) == [inf |-> FALSE, neg |-> neg, digits |-> << >>, sci |-> 0]

f64_infinity(neg) == [inf |-> TRUE, neg |-> neg, digits |-> << >>, sci |-> 0]

f64_is_finite(f) == ~f.inf

\* The f64 nearest to (+/-) 0.d1d2.. * 10^point, the digits `lead` having
\* no leading zero: infinite on overflow, zero on underflow.
f64_round(neg, lead, point) ==
    IF lead = << >> THEN f64_zero(neg)
    ELSE IF point - 1 > F64_MAX_10_EXP
            \/ (point - 1 = F64_MAX_10_EXP
                /\ ~SeqLess(StripTrailingZeros(lead), F64_OVERFLOW))
    THEN f64_infinity(neg)
    ELSE IF point - 1 < F64_ZERO_10_EXP THEN f64_zero(neg)
    ELSE [inf |-> FALSE, neg |-> neg, digits |-> StripTrailingZeros(lead),
          sci |-> point - 1]

\* The f64 of sign, integer digits, fraction digits (characters) and
\* exponent.
f64_from_decimal(neg, int, frac, exp) ==
    With([i \in 1..(Len(int) + Len(frac)) |-> (int \o frac)[i] - Ch["0"]],
         LAMBDA all:
    With(StripLeadingZeros(all), LAMBDA lead:
         f64_round(neg, lead, Len(int) - (Len(all) - Len(lead)) + exp)))

\* The mantissa of an unsigned lexeme: its text before the exponent mark.
MantissaText(cs) == Take(cs, SpanLen(cs, Digits \cup {Ch["."]}))

\* str::parse::<f64>() on a lexeme of the JSON number grammar: the nearest
\* f64, infinite when the magnitude overflows, zero when it underflows.
f64_parse(buf) ==
    With(buf # << >> /\ Head(buf) = Ch["-"], LAMBDA neg:
    With(IF neg THEN Tail(buf) ELSE buf, LAMBDA unsigned:
    With(MantissaText(unsigned), LAMBDA mantissa:
    With(SpanLen(mantissa, Digits), LAMBDA nint:
         f64_from_decimal(neg, Take(mantissa, nint), Drop(mantissa, nint + 1),
                          SignedValue(Drop(unsigned, Len(mantissa) + 1)))))))

\* f64 equality (-0.0 == 0.0); Num derives PartialEq from it.
f64_eq(a, b) ==
    \/ a = b
    \/ ~a.inf /\ ~b.inf /\ a.digits = << >> /\ b.digits = << >>

\* The decimal digits of a natural, as characters.
RECURSIVE NatText(_)
NatText(n) ==
    IF n < 10 THEN <<Ch["0"] + n>>
    ELSE NatText(n \div 10) \o <<Ch["0"] + (n % 10)>>

DigitText(ds) == [i \in 1..Len(ds) |-> Ch["0"] + ds[i]]

Zeros(n) == [i \in 1..n |-> Ch["0"]]

IntText(n) == IF n < 0 THEN Lit(<<"-">>) \o NatText(0 - n) ELSE NatText(n)

\* The digits ds (characters) with exponent sci in exponent form.
ExpForm(ds, sci) ==
    <<Head(ds)>>
    \o (IF Len(ds) > 1 THEN Lit(<<".">>) \o Tail(ds) ELSE << >>)
    \o Lit(<<"e">>) \o IntText(sci)

\* The digits ds (characters) with exponent sci in decimal form, with a
\* fraction of at least one digit.
DecimalForm(ds, sci) ==
    IF sci < 0 THEN Lit(<<"0", ".">>) \o Zeros(0 - sci - 1) \o ds
    ELSE IF Len(ds) <= sci + 1
    THEN ds \o Zeros(sci + 1 - Len(ds)) \o Lit(<<".", "0">>)
    ELSE Take(ds, sci + 1) \o Lit(<<".">>) \o Drop(ds, sci + 1)

\* format!("{:?}", f) of a finite f64: the shortest decimal that reads back,
\* in exponent form below 1e-4 and from 1e16 on, else in decimal form.
f64_debug(f) ==
    (IF f.neg THEN Lit(<<"-">>) ELSE << >>)
    \o (IF f.digits = << >> THEN Lit(<<"0", ".", "0">>)
        ELSE IF f.sci < -4 \/ f.sci >= 16 THEN ExpForm(DigitText(f.digits), f.sci)
        ELSE DecimalForm(DigitText(f.digits), f.sci))

\* Num::new: Some(Num(f)) for a finite f, None otherwise.
Num_new(f) == IF f64_is_finite(f) THEN Some(f) ELSE None

\* Num::get
Num_get(num) == num

(***************************************************************************)
(* The value tree (lib.rs).  Str is the sequence of its chars, Arr a       *)
(* sequence of values, Obj (a BTreeMap<Str, Value>) the sequence of its    *)
(* entries in iteration order: ascending by key, keys unique.              *)
(***************************************************************************)
Value_Null == [t |-> "Null"]
Value_Boolean(b) == [t |-> "Boolean", b |-> b]
Value_Number(num) == [t |-> "Number", num |-> num]
Value_String(str) == [t |-> "String", str |-> str]
Value_Array(arr) == [t |-> "Array", arr |-> arr]
Value_Object(obj) == [t |-> "Object", obj |-> obj]

Obj_new == << >>

\* Obj_insert keeping the entries in the order of their first insertion.
RECURSIVE Obj_insert_unsorted(_, _, _)
Obj_insert_unsorted(obj, key, value) ==
    IF obj = << >> THEN << <<key, value>> >>
    ELSE IF Head(obj)[1] = key THEN << <<key, value>> >> \o Tail(obj)
    ELSE <<Head(obj)>> \o Obj_insert_unsorted(Tail(obj), key, value)

\* BTreeMap::insert: the value of an equal key is replaced, a new key goes
\* to its place in key order.
RECURSIVE Obj_insert(_, _, _)
Obj_insert(obj, key, value) ==
    IF obj = << >> THEN << <<key, value>> >>
    ELSE IF Head(obj)[1] = key THEN << <<key, value>> >> \o Tail(obj)
    ELSE IF SeqLess(key, Head(obj)[1]) THEN << <<key, value>> >> \o obj
    ELSE <<Head(obj)>> \o Obj_insert(Tail(obj), key, value)

\* Obj_from_iter keeping the first value of a key that comes again.
RECURSIVE Obj_from_iter_first(_)
Obj_from_iter_first(buf) ==
    IF buf = << >> THEN << >>
    ELSE IF \E i \in 1..(Len(buf) - 1) : buf[i][1] = buf[Len(buf)][1]
    THEN Obj_from_iter_first(Take(buf, Len(buf) - 1))
    ELSE Obj_insert(Obj_from_iter_first(Take(buf, Len(buf) - 1)),
                    buf[Len(buf)][1], buf[Len(buf)][2])

\* BTreeMap::from_iter over the pairs of buf, in order.
RECURSIVE Obj_from_iter(_)
Obj_from_iter(buf) ==
    IF buf = << >> THEN Obj_new
    ELSE Obj_insert(Obj_from_iter(Take(buf, Len(buf) - 1)),
                    buf[Len(buf)][1], buf[Len(buf)][2])

\* The derived PartialEq of Value.
RECURSIVE Value_eq(_, _)
Value_eq(a, b) ==
    /\ a.t = b.t
    /\ CASE a.t = "Null" -> TRUE
         [] a.t = "Boolean" -> a.b = b.b
         [] a.t = "Number" -> f64_eq(a.num, b.num)
         [] a.t = "String" -> a.str = b.str
         [] a.t = "Array" ->
                /\ Len(a.arr) = Len(b.arr)
                /\ \A i \in 1..Len(a.arr) : Value_eq(a.arr[i], b.arr[i])
         [] a.t = "Object" ->
                /\ Len(a.obj) = Len(b.obj)
                /\ \A i \in 1..Len(a.obj) :
                       /\ a.obj[i][1] = b.obj[i][1]
                       /\ Value_eq(a.obj[i][2], b.obj[i][2])

(***************************************************************************)
(* The parser (parse/helper.rs).  Every function takes the scan state and  *)
(* returns Ok or Err with the scan state it leaves.                        *)
(***************************************************************************)
Unit == << >>

WS == {Ch[" "], CHAR_LF, CHAR_CR, CHAR_TAB}

RECURSIVE skip_ws(_)
skip_ws(st) ==
    With(peek_char(st), LAMBDA p:
         IF p.ok /\ p.val \in WS THEN skip_ws(skip_char(st, p.val)) ELSE st)

\* expect_char skipping the expected char without peeking.
expect_char_blind(st, expected) ==
    With(skip_char(st, expected), LAMBDA s:
         IF s.asserts THEN Ok(Unit, s) ELSE Err(error(st, "UnexpectedChar"), s))

expect_char(st, expected) ==
    Try(peek_char(st), LAMBDA peeked, s:
        IF peeked # expected THEN Err(error(s, "UnexpectedChar"), s)
        ELSE Ok(Unit, skip_char(s, peeked)))

RECURSIVE expect_str(_, _)
expect_str(st, str) ==
    IF str = << >> THEN Ok(Unit, st)
    ELSE Try(expect_char(st, Head(str)), LAMBDA u, s: expect_str(s, Tail(str)))

\* consume_char!: push the peeked char on buf and skip it.
consume_char(buf, st, peeked) == Ok(Append(buf, peeked), skip_char(st, peeked))

\* accept_digits!
RECURSIVE accept_digits(_, _)
accept_digits(buf, st) ==
    With(peek_char(st), LAMBDA p:
         IF p.ok /\ p.val \in Digits
         THEN Try(consume_char(buf, st, p.val), LAMBDA b, s: accept_digits(b, s))
         ELSE Ok(buf, st))

\* require_digits!
require_digits(buf, st) ==
    Try(peek_char(st), LAMBDA peeked, s:
        IF peeked \notin Digits THEN Err(error(s, "UnexpectedChar"), s)
        ELSE Try(consume_char(buf, s, peeked), LAMBDA b, s2: accept_digits(b, s2)))

\* parse_number, the optional minus sign.
number_minus(buf, st) ==
    With(peek_char(st), LAMBDA p:
         IF p.ok /\ p.val = Ch["-"] THEN consume_char(buf, st, p.val)
         ELSE Ok(buf, st))

\* number_integer taking the digits after a leading 0 as well.
number_integer_lax(buf, st) ==
    Try(number_minus(buf, st), LAMBDA b1, s1: require_digits(b1, s1))

\* parse_number, integer: /[-]?(0|[1-9][0-9]*)/
number_integer(buf, st) ==
    Try(number_minus(buf, st), LAMBDA b1, s1:
    Try(peek_char(s1), LAMBDA peeked, s:
        IF peeked = Ch["0"] THEN consume_char(b1, s, peeked)
        ELSE IF peeked \in Ch["1"]..Ch["9"]
        THEN Try(consume_char(b1, s, peeked), LAMBDA b2, s2: accept_digits(b2, s2))
        ELSE Err(error(s, "UnexpectedChar"), s)))

\* parse_number, fraction: /([.][0-9]+)?/
number_fraction(buf, st) ==
    With(peek_char(st), LAMBDA p:
         IF p.ok /\ p.val = Ch["."]
         THEN Try(consume_char(buf, st, p.val), LAMBDA b, s: require_digits(b, s))
         ELSE Ok(buf, st))

\* parse_number, the optional sign of the exponent.
number_exponent_sign(buf, st) ==
    With(peek_char(st), LAMBDA p:
         IF p.ok /\ p.val \in {Ch["+"], Ch["-"]} THEN consume_char(buf, st, p.val)
         ELSE Ok(buf, st))

\* parse_number, exponent: /([Ee][+-]?[0-9]+)?/
number_exponent(buf, st) ==
    With(peek_char(st), LAMBDA p:
         IF p.ok /\ p.val \in {Ch["E"], Ch["e"]}
         THEN Try(consume_char(buf, st, p.val), LAMBDA b1, s1:
              Try(number_exponent_sign(b1, s1), LAMBDA b2, s2:
                  require_digits(b2, s2)))
         ELSE Ok(buf, st))

\* parse_number up to the conversion: Ok(buf), the lexeme matched.
number_lexeme(st) ==
    Try(number_integer(<< >>, st), LAMBDA b1, s1:
    Try(number_fraction(b1, s1), LAMBDA b2, s2:
        number_exponent(b2, s2)))

\* parse_number making its error where the literal ends.
parse_number_late(st) ==
    Try(number_lexeme(st), LAMBDA buf, s:
    With(Num_new(f64_parse(buf)), LAMBDA num:
         IF num.some THEN Ok(num.val, s) ELSE Err(error(s, "TooBigNumber"), s)))

parse_number(st) ==
    With(error(st, "TooBigNumber"), LAMBDA num_error:
    Try(number_lexeme(st), LAMBDA buf, s:
    With(Num_new(f64_parse(buf)), LAMBDA num:
         IF num.some THEN Ok(num.val, s) ELSE Err(num_error, s))))

\* One bit of a u16, and `|`, `<<` on u16.
Bit16(n, i) == (n \div (2 ^ i)) % 2

RECURSIVE BitOr16From(_, _, _)
BitOr16From(x, y, i) ==
    IF i > 15 THEN 0
    ELSE (IF Bit16(x, i) = 1 \/ Bit16(y, i) = 1 THEN 2 ^ i ELSE 0)
         + BitOr16From(x, y, i + 1)

BitOr16(x, y) == BitOr16From(x, y, 0)

Shl16(x, k) == (x * (2 ^ k)) % 65536

is_utf16_surrogate(u) == u \in 55296..57343

\* decode_utf16_next without the check that a pair starts with a high
\* surrogate.
decode_utf16_next_unordered(units) ==
    IF ~is_utf16_surrogate(units[1]) THEN Some(units[1])
    ELSE IF Len(units) < 2 THEN None
    ELSE IF units[2] < 56320 \/ units[2] > 57343 THEN None
    ELSE Some(((units[1] % 1024) * 1024 + (units[2] % 1024)) + 65536)

\* char::decode_utf16(units).next(), for one or two units: Some(Ok(char))
\* or Some(Err(..)), here Some(char) or None.
decode_utf16_next(units) ==
    IF ~is_utf16_surrogate(units[1]) THEN Some(units[1])
    ELSE IF units[1] >= 56320 THEN None
    ELSE IF Len(units) < 2 THEN None
    ELSE IF units[2] < 56320 \/ units[2] > 57343 THEN None
    ELSE Some(((units[1] % 1024) * 1024 + (units[2] % 1024)) + 65536)

RECURSIVE parse_hex_4_loop(_, _, _)
parse_hex_4_loop(st, buf, i) ==
    IF i < 0 THEN Ok(buf, st)
    ELSE Try(peek_char(st), LAMBDA peeked, s:
         With(to_digit_16(peeked), LAMBDA hex:
              IF ~hex.some THEN Err(error(s, "UnexpectedChar"), s)
              ELSE parse_hex_4_loop(skip_char(s, peeked),
                                    BitOr16(buf, Shl16(hex.val, 4 * i)), i - 1)))

parse_hex_4(st) == parse_hex_4_loop(st, 0, 3)

\* escape_second_half making its error where the second escape ends.
escape_second_half_late(st, unit, utf16_decode_error) ==
    Try(expect_char(st, Ch["\\"]), LAMBDA u1, s1:
    Try(expect_char(s1, Ch["u"]), LAMBDA u2, s2:
    Try(parse_hex_4(s2), LAMBDA unit_2, s3:
    With(decode_utf16_next(<<unit, unit_2>>), LAMBDA result:
         IF result.some THEN Ok(result.val, s3)
         ELSE Err(error(s3, "InvalidUtf16SurrogatePair"), s3)))))

\* parse_escape after a first unit that is no char alone: the second half
\* of the surrogate pair.
escape_second_half(st, unit, utf16_decode_error) ==
    Try(expect_char(st, Ch["\\"]), LAMBDA u1, s1:
    Try(expect_char(s1, Ch["u"]), LAMBDA u2, s2:
    Try(parse_hex_4(s2), LAMBDA unit_2, s3:
    With(decode_utf16_next(<<unit, unit_2>>), LAMBDA result:
         IF result.some THEN Ok(result.val, s3)
         ELSE Err(utf16_decode_error, s3)))))

\* parse_escape after `\u`.
escape_unicode(st, utf16_decode_error) ==
    Try(parse_hex_4(st), LAMBDA unit, s:
    With(decode_utf16_next(<<unit>>), LAMBDA decoded:
         IF decoded.some THEN Ok(decoded.val, s)
         ELSE escape_second_half(s, unit, utf16_decode_error)))

parse_escape(st) ==
    With(error(st, "InvalidUtf16SurrogatePair"), LAMBDA utf16_decode_error:
    Try(expect_char(st, Ch["\\"]), LAMBDA u, s1:
    Try(peek_char(s1), LAMBDA peeked, s:
        IF peeked <= 255 /\ PARSE_ESCAPE[peeked].some
        THEN Ok(PARSE_ESCAPE[peeked].val, skip_char(s, peeked))
        ELSE IF peeked = Ch["u"]
        THEN escape_unicode(skip_char(s, peeked), utf16_decode_error)
        ELSE Err(error(s, "UnexpectedChar"), s))))

RECURSIVE parse_string_loop(_, _)
parse_string_loop(st, buf) ==
    Try(peek_char(st), LAMBDA peeked, s:
        IF peeked = Ch["\""] THEN Ok(buf, skip_char(s, peeked))
        ELSE IF peeked = Ch["\\"]
        THEN Try(parse_escape(s), LAMBDA c, s2: parse_string_loop(s2, Append(buf, c)))
        ELSE IF peeked >= MIN_VALID_STRING_CHAR
        THEN parse_string_loop(skip_char(s, peeked), Append(buf, peeked))
        ELSE Err(error(s, "UnexpectedChar"), s))

parse_string(st) ==
    Try(expect_char(st, Ch["\""]), LAMBDA u, s: parse_string_loop(s, << >>))

RECURSIVE parse_element(_), parse_value(_), parse_array_loop(_, _),
          parse_object_loop(_, _), parse_member(_)

\* parse_element without its second skip_ws.
parse_element_tight(st) == parse_value(skip_ws(st))

parse_element(st) ==
    Try(parse_value(skip_ws(st)), LAMBDA value, s: Ok(value, skip_ws(s)))

\* `if !buf.is_empty() { self.expect_char(',')?; }`
expect_separator(st, buf) ==
    IF buf # << >> THEN expect_char(st, Ch[","]) ELSE Ok(Unit, st)

\* parse_array_loop closing the array after a separator as well.
parse_array_loop_lenient(st, buf) ==
    Try(peek_char(st), LAMBDA peeked, s:
        IF peeked = Ch["]"] THEN Ok(buf, skip_char(s, peeked))
        ELSE Try(expect_separator(s, buf), LAMBDA u, s1:
             With(skip_ws(s1), LAMBDA s2:
                  IF buf # << >> /\ peek_char(s2).ok /\ peek_char(s2).val = Ch["]"]
                  THEN Ok(buf, skip_char(s2, Ch["]"]))
                  ELSE Try(parse_element(s1), LAMBDA element, s3:
                           parse_array_loop(s3, Append(buf, element))))))

\* The loop of parse_array, buf holding the elements read so far.
parse_array_loop(st, buf) ==
    Try(peek_char(st), LAMBDA peeked, s:
        IF peeked = Ch["]"] THEN Ok(buf, skip_char(s, peeked))
        ELSE Try(expect_separator(s, buf), LAMBDA u, s1:
             Try(parse_element(s1), LAMBDA element, s2:
                 parse_array_loop(s2, Append(buf, element)))))

parse_array(st) ==
    Try(expect_char(st, Ch["["]), LAMBDA u, s: parse_array_loop(skip_ws(s), << >>))

parse_member(st) ==
    Try(parse_string(skip_ws(st)), LAMBDA key, s1:
    Try(expect_char(skip_ws(s1), Ch[":"]), LAMBDA u, s2:
    Try(parse_element(s2), LAMBDA value, s3: Ok(<<key, value>>, s3))))

\* The loop of parse_object, buf holding the members read so far.
parse_object_loop(st, buf) ==
    Try(peek_char(st), LAMBDA peeked, s:
        IF peeked = Ch["}"] THEN Ok(buf, skip_char(s, peeked))
        ELSE Try(expect_separator(s, buf), LAMBDA u, s1:
             Try(parse_member(s1), LAMBDA member, s2:
                 parse_object_loop(s2, Append(buf, member)))))

parse_object(st) ==
    Try(expect_char(st, Ch["{"]), LAMBDA u, s:
    Try(parse_object_loop(skip_ws(s), << >>), LAMBDA buf, s2:
        Ok(Obj_from_iter(buf), s2)))

parse_value(st) ==
    Try(peek_char(st), LAMBDA peeked, s:
        IF peeked = Ch["n"]
        THEN Try(expect_str(s, Lit(<<"n", "u", "l", "l">>)),
                 LAMBDA u, s1: Ok(Value_Null, s1))
        ELSE IF peeked = Ch["t"]
        THEN Try(expect_str(s, Lit(<<"t", "r", "u", "e">>)),
                 LAMBDA u, s1: Ok(Value_Boolean(TRUE), s1))
        ELSE IF peeked = Ch["f"]
        THEN Try(expect_str(s, Lit(<<"f", "a", "l", "s", "e">>)),
                 LAMBDA u, s1: Ok(Value_Boolean(FALSE), s1))
        ELSE IF peeked = Ch["-"] \/ peeked \in Ch["0"]..Ch["9"]
        THEN Try(parse_number(s), LAMBDA num, s1: Ok(Value_Number(num), s1))
        ELSE IF peeked = Ch["\""]
        THEN Try(parse_string(s), LAMBDA str, s1: Ok(Value_String(str), s1))
        ELSE IF peeked = Ch["["]
        THEN Try(parse_array(s), LAMBDA arr, s1: Ok(Value_Array(arr), s1))
        ELSE IF peeked = Ch["{"]
        THEN Try(parse_object(s), LAMBDA obj, s1: Ok(Value_Object(obj), s1))
        ELSE Err(error(s, "UnexpectedChar"), s))

\* parse without the check that the input ends after the element.
parse_lenient(str) == parse_element(State_new(str))

\* helper::parse, behind FromStr for Value
parse(str) ==
    Try(parse_element(State_new(str)), LAMBDA element, s:
        IF peek_char(s).ok THEN Err(error(s, "UnexpectedChar"), s)
        ELSE Ok(element, s))

(***************************************************************************)
(* The serializer (stringify.rs).  Every function returns the text it      *)
(* writes to the formatter; `pretty` is the formatter's alternate flag.    *)
(***************************************************************************)
is_pretty(pretty) == pretty

RECURSIVE Indent(_)
Indent(depth) ==
    IF depth = 0 THEN << >> ELSE Lit(<<" ", " ", " ", " ">>) \o Indent(depth - 1)

pretty_writeln_indent(pretty, depth) ==
    IF is_pretty(pretty) THEN <<CHAR_LF>> \o Indent(depth) ELSE << >>

strip_suffix_dot0(debug) ==
    IF Len(debug) >= 2 /\ Drop(debug, Len(debug) - 2) = Lit(<<".", "0">>)
    THEN Take(debug, Len(debug) - 2) ELSE debug

write_number(num) == strip_suffix_dot0(f64_debug(Num_get(num)))

HexDigit(n) == IF n < 10 THEN Ch["0"] + n ELSE Ch["a"] + (n - 10)

\* Hex04 with upper case digits: format!("{:04X}", byte)
Hex04_upper(byte) ==
    <<Ch["0"], Ch["0"],
      IF ((byte \div 16) % 16) < 10 THEN Ch["0"] + ((byte \div 16) % 16)
      ELSE Ch["A"] + (((byte \div 16) % 16) - 10),
      IF (byte % 16) < 10 THEN Ch["0"] + (byte % 16)
      ELSE Ch["A"] + ((byte % 16) - 10)>>

\* format!("{:04x}", byte)
Hex04(byte) ==
    <<HexDigit(byte \div 4096), HexDigit((byte \div 256) % 16),
      HexDigit((byte \div 16) % 16), HexDigit(byte % 16)>>

\* write_string_char escaping nothing.
write_string_char_raw(c) == <<c>>

\* What write_string writes for one char.
write_string_char(c) ==
    IF c <= 255 /\ STRINGIFY_ESCAPE[c].some
    THEN <<Ch["\\"], STRINGIFY_ESCAPE[c].val>>
    ELSE IF c <= 255 /\ c < MIN_VALID_STRING_CHAR
    THEN Lit(<<"\\", "u">>) \o Hex04(c)
    ELSE <<c>>

RECURSIVE write_string_chars(_)
write_string_chars(str) ==
    IF str = << >> THEN << >>
    ELSE write_string_char(Head(str)) \o write_string_chars(Tail(str))

write_string(str) == <<Ch["\""]>> \o write_string_chars(str) \o <<Ch["\""]>>

RECURSIVE write_value(_, _, _), write_array_elements(_, _, _, _),
          write_object_members(_, _, _, _)

\* The loop of write_array, from element i on, at the inner depth.
write_array_elements(arr, i, depth, pretty) ==
    IF i > Len(arr) THEN << >>
    ELSE (IF i # 1 THEN <<Ch[","]>> ELSE << >>)
         \o pretty_writeln_indent(pretty, depth)
         \o write_value(arr[i], depth, pretty)
         \o write_array_elements(arr, i + 1, depth, pretty)

\* write_array without its test of arr.is_empty().
write_array_always(arr, depth, pretty) ==
    <<Ch["["]>>
    \o write_array_elements(arr, 1, depth + 1, pretty)
    \o pretty_writeln_indent(pretty, depth)
    \o <<Ch["]"]>>

write_array(arr, depth, pretty) ==
    <<Ch["["]>>
    \o (IF arr # << >>
        THEN write_array_elements(arr, 1, depth + 1, pretty)
             \o pretty_writeln_indent(pretty, depth)
        ELSE << >>)
    \o <<Ch["]"]>>

\* The loop of write_object, from member i on, at the inner depth.
write_object_members(obj, i, depth, pretty) ==
    IF i > Len(obj) THEN << >>
    ELSE (IF i # 1 THEN <<Ch[","]>> ELSE << >>)
         \o pretty_writeln_indent(pretty, depth)
         \o write_string(obj[i][1])
         \o <<Ch[":"]>>
         \o (IF is_pretty(pretty) THEN <<Ch[" "]>> ELSE << >>)
         \o write_value(obj[i][2], depth, pretty)
         \o write_object_members(obj, i + 1, depth, pretty)

write_object(obj, depth, pretty) ==
    <<Ch["{"]>>
    \o (IF obj # << >>
        THEN write_object_members(obj, 1, depth + 1, pretty)
             \o pretty_writeln_indent(pretty, depth)
        ELSE << >>)
    \o <<Ch["}"]>>

write_value(value, depth, pretty) ==
    CASE value.t = "Null" -> Lit(<<"n", "u", "l", "l">>)
      [] value.t = "Boolean" ->
            IF value.b THEN Lit(<<"t", "r", "u", "e">>)
            ELSE Lit(<<"f", "a", "l", "s", "e">>)
      [] value.t = "Number" -> write_number(value.num)
      [] value.t = "String" -> write_string(value.str)
      [] value.t = "Array" -> write_array(value.arr, depth, pretty)
      [] value.t = "Object" -> write_object(value.obj, depth, pretty)

\* Display::fmt for Value
fmt(value, pretty) == write_value(value, 0, pretty)

(***************************************************************************)
(* The state machine: a caller holding an input text, the scan state of    *)
(* its parser, the result of FromStr::from_str, a value tree, and the text *)
(* Display::fmt wrote for it.                                              *)
(***************************************************************************)
VARIABLES input, state, result, value, output

vars == <<input, state, result, value, output>>

NoResult == [pending |-> TRUE]
NoValue == [t |-> "None"]

\* All concatenations of at most n texts of the set tokens.
RECURSIVE Texts(_, _)
Texts(tokens, n) ==
    IF n = 0 THEN {<< >>}
    ELSE Texts(tokens, n - 1)
         \cup {s \o t : s \in Texts(tokens, n - 1), t \in tokens}

\* The caller holds a text of `texts`, and nothing else yet.
InitInput(texts) ==
    /\ input \in texts
    /\ state = State_new(input)
    /\ result = NoResult
    /\ value = NoValue
    /\ output = None

\* FromStr::from_str(input): the parser runs to its result; an Ok value is
\* the caller's from then on.
FromStr ==
    /\ result = NoResult
    /\ result' = parse(input)
    /\ state' = result'.st
    /\ value' = IF result'.ok THEN result'.val ELSE value
    /\ UNCHANGED <<input, output>>

\* One scan step of the parser: peek_char, then skip_char of the peeked
\* char.
Skip ==
    /\ peek_char(state).ok
    /\ state' = skip_char(state, peek_char(state).val)
    /\ UNCHANGED <<input, result, value, output>>

\* Display::fmt of the caller's value, `{}` or `{:#}`.
Display(pretty) ==
    /\ value # NoValue
    /\ output = None
    /\ output' = Some(fmt(value, pretty))
    /\ UNCHANGED <<input, state, result, value>>

\* The caller inserts a member into its object (BTreeMap::insert).
Insert(key, v) ==
    /\ value.t = "Object"
    /\ output = None
    /\ value' = Value_Object(Obj_insert(value.obj, key, v))
    /\ UNCHANGED <<input, state, result, output>>

(***************************************************************************)
(* Reading the input text independently of the parser.                     *)
(***************************************************************************)
\* The indices before i that hold a line feed.
LineFeedsBefore(text, i) == {j \in 1..(i - 1) : text[j] = CHAR_LF}

Greatest(set) == CHOOSE m \in set : \A n \in set : n <= m

\* Line and column (1-based) of index i of text; i = Len(text) + 1 is its
\* end.
PositionOf(text, i) ==
    [line |-> 1 + Cardinality(LineFeedsBefore(text, i)),
     column |-> i - Greatest(LineFeedsBefore(text, i) \cup {0})]

\* The index of text that lies at a position.
IndexOf(text, position) ==
    CHOOSE i \in 1..(Len(text) + 1) : PositionOf(text, i) = position

\* How many chars of the input the scan has consumed.
Consumed == Len(input) - Len(state.chars)

\* An error result of a kind at an index of the input.
ErrAt(r, kind, i) ==
    /\ r # NoResult
    /\ ~r.ok
    /\ r.err = [kind |-> kind, position |-> PositionOf(input, i)]

\* The index of the first char of text at or after i that is no whitespace
\* (Len(text) + 1 when there is none).
NextNonWs(text, i) == i + SpanLen(Drop(text, i - 1), WS)

(***************************************************************************)
(* Scanning: texts with line feeds, carriage returns, tabs, and chars of   *)
(* one to four UTF-8 bytes.                                                *)
(***************************************************************************)
MaxScan == 4

ScanTokens ==
    {<<CHAR_LF>>, <<CHAR_CR>>, <<CHAR_TAB>>, Lit(<<"a">>), <<233>>, <<129505>>}

InitScan == InitInput(Texts(ScanTokens, MaxScan))

SpecScan == InitScan /\ [][Skip]_vars

\* C7: the scan position starts at line 1 column 1, a consumed LF starts
\* the next line at column 1 and any other consumed char (CR, tab and
\* non-ASCII included) advances the column by one: at every point of the
\* scan, line = 1 + the LFs consumed and column = 1 + the chars consumed
\* since the last LF.
PositionCountsConsumed ==
    /\ state.chars = Drop(input, Consumed)
    /\ state.position.line
         = 1 + Cardinality({j \in 1..Consumed : input[j] = CHAR_LF})
    /\ state.position.column
         = 1 + Cardinality({j \in 1..Consumed :
                               \A k \in j..Consumed : input[k] # CHAR_LF})

\* A scan that has consumed a char, a LF, a CR and a four-byte char.
PositionWitness ==
    /\ Consumed = 4
    /\ Take(input, 4) = <<Ch["a"], CHAR_LF, CHAR_CR, 129505>>
    /\ state.position = [line |-> 2, column |-> 3]

(***************************************************************************)
(* Number literals: texts over the chars of the number grammar, at top     *)
(* level after whitespace or as the first element of an array, with        *)
(* nothing, a char, whitespace or the end of the array after them.         *)
(***************************************************************************)
MaxNumberTokens == 4

NumberTokens ==
    { Lit(<<"-">>), Lit(<<"0">>), Lit(<<"1">>), Lit(<<".">>), Lit(<<"e">>),
      Lit(<<"E", "+">>), Lit(<<"e", "4", "0", "0">>) }

NumberPrefixes == { << >>, <<CHAR_LF, Ch[" "]>>, Lit(<<"[">>) }

NumberSuffixes == { << >>, Lit(<<"x">>), Lit(<<" ", "]">>) }

InitNumber ==
    InitInput({p \o b \o q : p \in NumberPrefixes,
                              b \in Texts(NumberTokens, MaxNumberTokens),
                              q \in NumberSuffixes})

SpecNumber == InitNumber /\ [][FromStr]_vars

IsDigits(s) == s # << >> /\ \A i \in 1..Len(s) : s[i] \in Digits

\* 0|[1-9][0-9]*
IsInt(s) == IsDigits(s) /\ (s[1] = Ch["0"] => Len(s) = 1)

\* ([.][0-9]+)?
IsFrac(s) == s = << >> \/ (s[1] = Ch["."] /\ IsDigits(Tail(s)))

\* ([eE][+-]?[0-9]+)?
IsExp(s) ==
    \/ s = << >>
    \/ /\ s[1] \in {Ch["e"], Ch["E"]}
       /\ \/ IsDigits(Tail(s))
          \/ Len(s) >= 2 /\ s[2] \in {Ch["+"], Ch["-"]} /\ IsDigits(Drop(s, 2))

\* The texts of -?(0|[1-9][0-9]*)(.[0-9]+)?([eE][+-]?[0-9]+)?
InNumberGrammar(s) ==
    \E a \in {0, 1}, b, c \in 0..Len(s) :
        /\ a <= b /\ b <= c
        /\ a = 1 => s[1] = Ch["-"]
        /\ IsInt(SubSeq(s, a + 1, b))
        /\ IsFrac(SubSeq(s, b + 1, c))
        /\ IsExp(SubSeq(s, c + 1, Len(s)))

\* The texts that begin a text of the grammar: what is missing at their
\* end, if anything, is one digit.
Viable(s) == InNumberGrammar(s) \/ InNumberGrammar(s \o Lit(<<"0">>))

\* The length, from n on, of the longest prefix of s that is viable.
RECURSIVE ViableLen(_, _)
ViableLen(s, n) ==
    IF n < Len(s) /\ Viable(Take(s, n + 1)) THEN ViableLen(s, n + 1) ELSE n

\* The index after the longest viable text from index start of the input.
LexemeEnd(start) == start + ViableLen(Drop(input, start - 1), 0)

Lexeme(start) == SubSeq(input, start, LexemeEnd(start) - 1)

\* The index of the first char of the input that is neither whitespace nor
\* the `[` of an array.
NumberStart == 1 + SpanLen(input, WS \cup {Ch["["]})

\* The first leaf of a value tree.
RECURSIVE FirstLeaf(_)
FirstLeaf(v) ==
    IF v.t = "Array" /\ v.arr # << >> THEN FirstLeaf(v.arr[1]) ELSE v

\* What a finite number lexeme from start to before n leaves: q is the
\* next char that is no whitespace.
AfterNumber(start, n, q) ==
    IF start = 1 + SpanLen(input, WS)
    THEN IF q > Len(input)
         THEN result.ok /\ result.val = Value_Number(f64_parse(Lexeme(start)))
         ELSE ErrAt(result, "UnexpectedChar", q)
    ELSE IF q > Len(input) THEN ErrAt(result, "PrematureEof", q)
    ELSE IF input[q] # Ch["]"] THEN ErrAt(result, "UnexpectedChar", q)
    ELSE /\ result.ok =>
               FirstLeaf(result.val) = Value_Number(f64_parse(Lexeme(start)))
         /\ ~result.ok => IndexOf(input, result.err.position) > q

NumberOutcome(start, n) ==
    IF ~InNumberGrammar(Lexeme(start))
    THEN ErrAt(result, IF n > Len(input) THEN "PrematureEof" ELSE "UnexpectedChar", n)
    ELSE IF ~f64_is_finite(f64_parse(Lexeme(start)))
    THEN ~result.ok /\ result.err.kind = "TooBigNumber"
    ELSE AfterNumber(start, n, NextNonWs(input, n))

\* C10: a number is lexed strictly by
\* -?(0|[1-9][0-9]*)(.[0-9]+)?([eE][+-]?[0-9]+)? : the parser consumes the
\* longest text that can begin a number; if a mandatory digit is missing
\* there it fails with UnexpectedChar at the offending char (PrematureEof
\* at the end of the input); otherwise exactly that text is the number and
\* what follows is read after it, so a digit after a leading 0 is never
\* part of the number.
NumberLexing ==
    (/\ result # NoResult
     /\ NumberStart <= Len(input)
     /\ input[NumberStart] \in Digits \cup {Ch["-"]})
    => NumberOutcome(NumberStart, LexemeEnd(NumberStart))

\* 01 is rejected at its second char.
NumberLexingWitness ==
    /\ input = Lit(<<"0", "1">>)
    /\ ErrAt(result, "UnexpectedChar", 2)

\* The chars of number lexemes.
NumberChars == Digits \cup {Ch["-"], Ch["+"], Ch["."], Ch["e"], Ch["E"]}

\* Index i of the input starts a number lexeme that is not finite, and the
\* scan stopped right after it.
TooBigLiteralAt(i) ==
    /\ i <= Len(input)
    /\ input[i] \in Digits \cup {Ch["-"]}
    /\ i > 1 => input[i - 1] \notin NumberChars
    /\ InNumberGrammar(Lexeme(i))
    /\ ~f64_is_finite(f64_parse(Lexeme(i)))
    /\ Consumed = LexemeEnd(i) - 1

\* C6: a number literal of the grammar that converts to a non-finite value
\* fails with TooBigNumber at the position of the literal's first char
\* (its `-` if it has one), whatever its length and whatever follows it.
TooBigAtStart ==
    result # NoResult =>
        /\ (/\ NumberStart <= Len(input)
            /\ input[NumberStart] \in Digits \cup {Ch["-"]}
            /\ InNumberGrammar(Lexeme(NumberStart))
            /\ ~f64_is_finite(f64_parse(Lexeme(NumberStart))))
           => ErrAt(result, "TooBigNumber", NumberStart)
        /\ (~result.ok /\ result.err.kind = "TooBigNumber")
           => TooBigLiteralAt(IndexOf(input, result.err.position))

\* -1e400 on the second line, with a char after it: the error is at the
\* `-`, the scan after the literal.
TooBigWitness ==
    /\ input = <<CHAR_LF, Ch[" "]>> \o Lit(<<"-", "1", "e", "4", "0", "0", "x">>)
    /\ ErrAt(result, "TooBigNumber", 3)
    /\ result.err.position = [line |-> 2, column |-> 2]
    /\ Consumed = 8

(***************************************************************************)
(* Values with something after them: texts over values, whitespace and     *)
(* chars that continue or end a value.                                     *)
(***************************************************************************)
MaxTrailingTokens == 4

TrailingTokens ==
    { Lit(<<"1">>), Lit(<<"0">>), Lit(<<".">>), Lit(<<"e">>),
      Lit(<<"n", "u", "l", "l">>), Lit(<<" ">>), Lit(<<"x">>), Lit(<<"[">>),
      Lit(<<"]">>), Lit(<<"\"", "a", "\"">>) }

InitTrailing == InitInput(Texts(TrailingTokens, MaxTrailingTokens))

SpecTrailing == InitTrailing /\ [][FromStr]_vars

\* The first k chars of the input are a valid JSON text (a value with
\* optional whitespace around it), and a char that is no whitespace follows.
ValueThenChar(k) ==
    /\ k < Len(input)
    /\ input[k + 1] \notin WS
    /\ parse(Take(input, k)).ok

\* The valid text of the first k chars is a number literal up to its last
\* char, and the char after it can continue a number literal.
NumberRunsOn(k) ==
    /\ input[k] \in Digits
    /\ input[k + 1] \in Digits \cup {Ch["."], Ch["e"], Ch["E"]}
    /\ parse(Take(input, k)).val.t = "Number"

IsUnexpectedChar(r) == r # NoResult /\ ~r.ok /\ r.err.kind = "UnexpectedChar"

MaxEscapeTokens == 3

EscapeTokens ==
    { Lit(<<"f", "o", "o">>),
      Lit(<<"\\", "u", "D", "8", "0", "0">>),
      Lit(<<"\\", "u", "d", "b", "f", "f">>),
      Lit(<<"\\", "u", "D", "C", "0", "0">>),
      Lit(<<"\\", "u", "d", "f", "f", "f">>),
      Lit(<<"\\", "u", "D", "7", "F", "F">>),
      Lit(<<"\\", "u", "E", "0", "0", "0">>),
      Lit(<<"\\", "\\">>), Lit(<<"\\", "u", "D", "8">>) }

InitSurrogate ==
    InitInput({p \o Lit(<<"\"">>) \o b \o q :
                  p \in {<< >>, <<CHAR_LF, Ch[" "]>>},
                  b \in Texts(EscapeTokens, MaxEscapeTokens),
                  q \in {<< >>, Lit(<<"\"">>), Lit(<<"b", "a", "r", "\"">>)}})

SpecSurrogate == InitSurrogate /\ [][FromStr]_vars

HighSurrogates == 55296..56319
LowSurrogates == 56320..57343

\* The code unit of the \uXXXX escape that is written at index i of text,
\* if one is.
UnitAt(text, i) ==
    IF /\ i + 5 <= Len(text)
       /\ text[i] = Ch["\\"]
       /\ text[i + 1] = Ch["u"]
       /\ \A j \in 2..5 : to_digit_16(text[i + j]).some
    THEN Some(4096 * to_digit_16(text[i + 2]).val
              + 256 * to_digit_16(text[i + 3]).val
              + 16 * to_digit_16(text[i + 4]).val
              + to_digit_16(text[i + 5]).val)
    ELSE None

\* The parser reaches index i of text without an error, inside a string and
\* between its chars: an ordinary char put there leaves the string open.
InStringAt(text, i) ==
    With(parse(Take(text, i - 1) \o Lit(<<"x">>)), LAMBDA r:
         ~r.ok /\ r.err.kind = "PrematureEof")

\* The parser reaches, at index i of the input, inside a string, a \uXXXX
\* escape of a unit of `firsts`, directly followed by a well-formed \uXXXX
\* escape, the two not being a high surrogate and then a low one.
BadPairAt(i, firsts) ==
    /\ UnitAt(input, i).some
    /\ UnitAt(input, i).val \in firsts
    /\ UnitAt(input, i + 6).some
    /\ ~(/\ UnitAt(input, i).val \in HighSurrogates
         /\ UnitAt(input, i + 6).val \in LowSurrogates)
    /\ InStringAt(input, i)

IsInvalidPair(r) ==
    r # NoResult /\ ~r.ok /\ r.err.kind = "InvalidUtf16SurrogatePair"

\* C4: an InvalidUtf16SurrogatePair error is positioned at the backslash
\* of the first \uXXXX escape of the pair, not at the second escape nor
\* where the scan stopped (after the second escape).
InvalidPairAtFirstEscape ==
    IsInvalidPair(result) =>
        \E i \in 1..Len(input) :
            /\ BadPairAt(i, HighSurrogates \cup LowSurrogates)
            /\ Consumed = i + 11
            /\ result.err.position = PositionOf(input, i)
            /\ result.err.position # PositionOf(input, i + 6)
            /\ result.err.position # state.position

\* "foo\uD800퟿bar" fails at line 1 column 5.
InvalidPairWitness ==
    /\ input = Lit(<<"\"", "f", "o", "o", "\\", "u", "D", "8", "0", "0",
                     "\\", "u", "D", "7", "F", "F", "b", "a", "r", "\"">>)
    /\ IsInvalidPair(result)
    /\ result.err.position = [line |-> 1, column |-> 5]

\* C5 as stated: the parse fails with InvalidUtf16SurrogatePair if and
\* only if it reaches in a string a \uXXXX escape of a high surrogate
\* followed by a well-formed \uXXXX escape of a unit that is no low
\* surrogate; an escape of a low surrogate is never reported so.
InvalidPairIffHighFirst ==
    result # NoResult =>
        (IsInvalidPair(result)
         <=> \E i \in 1..Len(input) : BadPairAt(i, HighSurrogates))

\* C5 as amended: the parse fails with InvalidUtf16SurrogatePair if and
\* only if it reaches in a string a \uXXXX escape of a surrogate (high or
\* low) directly followed by a well-formed \uXXXX escape, the two not being
\* a high surrogate and then a low one.
InvalidPairIffBadPair ==
    result # NoResult =>
        (IsInvalidPair(result)
         <=> \E i \in 1..Len(input) :
                 BadPairAt(i, HighSurrogates \cup LowSurrogates))

\* "\uDC00\uDC00": a low surrogate first, reported as an invalid pair.
LowFirstWitness ==
    /\ input = Lit(<<"\"", "\\", "u", "D", "C", "0", "0",
                     "\\", "u", "D", "C", "0", "0", "\"">>)
    /\ IsInvalidPair(result)
    /\ BadPairAt(2, LowSurrogates)

(***************************************************************************)
(* Arrays and objects: texts over brackets, elements, members, commas,     *)
(* another separator and line feeds.                                       *)
(***************************************************************************)
MaxCollectionTokens == 4

CollectionTokens ==
    { Lit(<<"[">>), Lit(<<"[", "1">>), Lit(<<"{", "\"", "k", "\"", ":", "1">>),
      Lit(<<",">>), Lit(<<"1">>), Lit(<<"\"", "k", "\"", ":", "1">>),
      Lit(<<"]">>), Lit(<<"}">>), Lit(<<";">>), <<CHAR_LF>> }

InitCollection == InitInput(Texts(CollectionTokens, MaxCollectionTokens))

SpecCollection == InitCollection /\ [][FromStr]_vars

\* After the first j chars of the input and a `,` the parser is, without an
\* error, where the next element or member of an array or object has to
\* start: the text ends too early there, and a char that starts no value
\* and no key is unexpected there.
AcceptsSeparatorAfter(j) ==
    /\ ErrAt(parse(Take(input, j) \o Lit(<<",">>)), "PrematureEof", j + 2)
    /\ ErrAt(parse(Take(input, j) \o Lit(<<",", "x">>)), "UnexpectedChar", j + 2)

\* The chars that stand between elements as a separator other than `,`:
\* no whitespace, no closing bracket, no char that continues a number.
OtherSeparators(c) ==
    c \notin WS \cup {Ch[","], Ch["]"], Ch["}"]}
             \cup Digits \cup {Ch["."], Ch["e"], Ch["E"]}

\* What follows the separating `,` at index j: q is the next char that is
\* no whitespace.
AfterSeparator(j, q) ==
    IF q > Len(input) THEN ErrAt(result, "PrematureEof", q)
    ELSE input[q] \in {Ch["]"], Ch["}"]} => ErrAt(result, "UnexpectedChar", q)

\* C8: in an array or object a `,` followed, after optional whitespace, by
\* the closing `]` or `}` fails with UnexpectedChar at that closing char,
\* a `,` followed by whitespace only up to the end of the input fails with
\* PrematureEof, and a separator other than `,` between elements fails
\* with UnexpectedChar at that separator.
TrailingCommaRejected ==
    result # NoResult =>
        \A j \in 1..Len(input) :
            /\ (input[j] = Ch[","] /\ AcceptsSeparatorAfter(j - 1))
               => AfterSeparator(j, NextNonWs(input, j + 1))
            /\ (OtherSeparators(input[j]) /\ AcceptsSeparatorAfter(j - 1))
               => ErrAt(result, "UnexpectedChar", j)

\* `[1,` then a line feed and `]`: the `]` on line 2 is unexpected.
TrailingCommaWitness ==
    /\ input = Lit(<<"[", "1", ",">>) \o <<CHAR_LF>> \o Lit(<<"]">>)
    /\ AcceptsSeparatorAfter(2)
    /\ ErrAt(result, "UnexpectedChar", 5)
    /\ result.err.position = [line |-> 2, column |-> 1]

(***************************************************************************)
(* Objects: texts of objects whose members come in any order and with      *)
(* keys coming again, a key written with an escape, and objects nested in  *)
(* an object or an array; the caller inserts members before it writes.     *)
(***************************************************************************)
MaxMembers == 2

\* "b", "a" and "c", the last written "c": as texts "c" comes
\* before "a", as keys c comes after b.
KeyTexts ==
    { Lit(<<"\"", "b", "\"">>), Lit(<<"\"", "a", "\"">>),
      Lit(<<"\"", "\\", "u", "0", "0", "6", "3", "\"">>) }

ValueTexts ==
    { Lit(<<"1">>), Lit(<<"2">>),
      Lit(<<"{", "\"", "b", "\"", ":", "2", ",", "\"", "a", "\"", ":", "1", "}">>),
      Lit(<<"[", "{", "\"", "b", "\"", ":", "1", ",", "\"", "a", "\"", ":", "1",
            ",", "\"", "b", "\"", ":", "2", "}", "]">>) }

MemberTexts == {k \o Lit(<<":">>) \o v : k \in KeyTexts, v \in ValueTexts}

\* The texts of at most n members, separated by commas.
RECURSIVE MemberLists(_)
MemberLists(n) ==
    IF n = 0 THEN {<< >>}
    ELSE MemberLists(n - 1)
         \cup {(IF l = << >> THEN l ELSE l \o Lit(<<",">>)) \o m :
                  l \in MemberLists(n - 1), m \in MemberTexts}

ObjectTexts == {Lit(<<"{">>) \o l \o Lit(<<"}">>) : l \in MemberLists(MaxMembers)}

InitObject == InitInput(ObjectTexts)

\* Value::Number of the number a literal reads as.
NumberOf(text) == Value_Number(Num_new(f64_parse(text)).val)

NextObject ==
    \/ FromStr
    \/ \E key \in {Lit(<<"a">>), Lit(<<"c">>), Lit(<<"B">>)} :
           Insert(key, NumberOf(Lit(<<"3">>)))
    \/ \E pretty \in BOOLEAN : Display(pretty)

SpecObject == InitObject /\ [][NextObject]_vars

\* The number of backslashes that come just before index j of text.
RECURSIVE BackslashesBefore(_, _)
BackslashesBefore(text, j) ==
    IF j > 1 /\ text[j - 1] = Ch["\\"] THEN 1 + BackslashesBefore(text, j - 1) ELSE 0

\* The indices of the quotes that open or close a string of a JSON text:
\* the quotes that no backslash escapes.
StringQuotes(text) ==
    {j \in 1..Len(text) :
        text[j] = Ch["\""] /\ BackslashesBefore(text, j) % 2 = 0}

\* Index i of a JSON text whose strings have the quotes `quotes` is outside
\* its strings.
OutsideStrings(quotes, i) == Cardinality({j \in quotes : j < i}) % 2 = 0

\* The indices of text where an object starts.
ObjectStarts(text) ==
    With(StringQuotes(text), LAMBDA quotes:
         {i \in 1..Len(text) : text[i] = Ch["{"] /\ OutsideStrings(quotes, i)})

\* The chars of text from index lo to index hi that are not white space
\* between its tokens.
RECURSIVE TokensBetween(_, _, _, _)
TokensBetween(text, quotes, lo, hi) ==
    IF lo > hi THEN << >>
    ELSE IF lo = hi
    THEN (IF text[lo] \in WS /\ OutsideStrings(quotes, lo)
          THEN << >> ELSE <<text[lo]>>)
    ELSE With((lo + hi) \div 2, LAMBDA mid:
              TokensBetween(text, quotes, lo, mid)
              \o TokensBetween(text, quotes, mid + 1, hi))

\* The text without the white space between its tokens: the chars of its
\* strings are all kept.
Tokens(text) ==
    With(StringQuotes(text), LAMBDA quotes:
         TokensBetween(text, quotes, 1, Len(text)))

\* The members, in the order of the text, of the object that starts at
\* index i of text: pairs of key and value.
MembersAt(text, i) == parse_object_loop(skip_ws(State_new(Drop(text, i))), << >>)

\* The object that the parser makes of the one that starts at index i.
ObjectAt(text, i) == parse_object(State_new(Drop(text, i - 1)))

Ascending(buf) ==
    \A i \in 1..(Len(buf) - 1) : SeqLess(buf[i][1], buf[i + 1][1])

\* C2: in the text written for a value, compact or pretty, the members of
\* every object, at any depth, come in strictly ascending order of their
\* keys, whatever their order in the parsed input and the order in which
\* the caller inserted them.
WrittenMembersAscending ==
    output.some =>
        With(Tokens(output.val), LAMBDA written:
             \A i \in ObjectStarts(written) :
                 With(MembersAt(written, i), LAMBDA r: r.ok /\ Ascending(r.val)))

\* {"b":2,"a":1} is written {"a":1,"b":2}.
WrittenMembersWitness ==
    /\ input = Lit(<<"{", "\"", "b", "\"", ":", "2", ",",
                     "\"", "a", "\"", ":", "1", "}">>)
    /\ output = Some(Lit(<<"{", "\"", "a", "\"", ":", "1", ",",
                           "\"", "b", "\"", ":", "2", "}">>))

\* Of the members buf of an object text, obj holds one entry for each key,
\* with the value of the key's last member.
LastWins(buf, obj) ==
    /\ \A i \in 1..Len(buf) :
           (\A j \in (i + 1)..Len(buf) : buf[j][1] # buf[i][1])
           => /\ Cardinality({e \in 1..Len(obj) : obj[e][1] = buf[i][1]}) = 1
              /\ \E e \in 1..Len(obj) : obj[e] = buf[i]
    /\ \A e \in 1..Len(obj) : \E i \in 1..Len(buf) : buf[i][1] = obj[e][1]

\* C9: a key that comes several times in an object is accepted, and the
\* parsed object holds exactly one entry for it, with the value of its
\* last occurrence in the input.  (Stated of the state FromStr leaves: the
\* input and the result do not change after it.)
DuplicateKeysLastWins ==
    (result # NoResult /\ output = None /\ value = result.val) =>
        /\ result.ok
        /\ result.val = Value_Object(ObjectAt(input, 1).val)
        /\ \A i \in ObjectStarts(input) :
               With(MembersAt(input, i), LAMBDA members:
               With(ObjectAt(input, i), LAMBDA object:
                    /\ members.ok
                    /\ object.ok
                    /\ LastWins(members.val, object.val)))

\* {"a":1,"a":2} is parsed as the object of a: 2.
DuplicateKeysWitness ==
    /\ input = Lit(<<"{", "\"", "a", "\"", ":", "1", ",",
                     "\"", "a", "\"", ":", "2", "}">>)
    /\ result # NoResult
    /\ result.ok
    /\ result.val = Value_Object(<< <<Lit(<<"a">>), NumberOf(Lit(<<"2">>))>> >>)

(***************************************************************************)
(* Round trips: the caller builds a value tree from leaves, by wrapping it *)
(* in an array or an object and by adding elements and members, writes it  *)
(* compact or pretty, and parses the text written.                         *)
(***************************************************************************)
MaxSize == 3

\* 0, -0, 12.34, -5.6e-77, 1e16, 123456789012345, 0.0001, 0.00001, 100 and
\* f64::MAX
LeafNumbers ==
    { f64_zero(FALSE), f64_zero(TRUE),
      [inf |-> FALSE, neg |-> FALSE, digits |-> <<1, 2, 3, 4>>, sci |-> 1],
      [inf |-> FALSE, neg |-> TRUE, digits |-> <<5, 6>>, sci |-> -77],
      [inf |-> FALSE, neg |-> FALSE, digits |-> <<1>>, sci |-> 16],
      [inf |-> FALSE, neg |-> FALSE,
       digits |-> <<1, 2, 3, 4, 5, 6, 7, 8, 9, 0, 1, 2, 3, 4, 5>>, sci |-> 14],
      [inf |-> FALSE, neg |-> FALSE, digits |-> <<1>>, sci |-> -4],
      [inf |-> FALSE, neg |-> FALSE, digits |-> <<1>>, sci |-> -5],
      [inf |-> FALSE, neg |-> FALSE, digits |-> <<1>>, sci |-> 2],
      [inf |-> FALSE, neg |-> FALSE,
       digits |-> <<1, 7, 9, 7, 6, 9, 3, 1, 3, 4, 8, 6, 2, 3, 1, 5, 7>>,
       sci |-> 308] }

\* The empty string; a quote, a backslash and a line feed; the chars with
\* a short escape and a slash; control chars and their neighbours; chars
\* of two, three and four UTF-8 bytes.
LeafStrings ==
    { << >>, <<Ch["a"], Ch["\""], Ch["\\"], CHAR_LF>>,
      <<CHAR_BS, CHAR_FF, CHAR_CR, CHAR_TAB, Ch["/"]>>,
      <<0, 31, 32, 127, 128, 255>>, <<233, 9829, 129505>> }

Leaves ==
    {Value_Null, Value_Boolean(TRUE), Value_Boolean(FALSE),
     Value_Array(<< >>), Value_Object(Obj_new)}
    \cup {Value_Number(Num_new(f).val) : f \in LeafNumbers}
    \cup {Value_String(str) : str \in LeafStrings}

\* What the caller adds to an array or an object.
AddedLeaves ==
    {Value_Null, Value_Number(Num_new(f64_zero(TRUE)).val),
     Value_String(<<Ch["a"], Ch["\""], Ch["\\"], CHAR_LF>>)}

AddedKeys == {Lit(<<"k">>), <<Ch["\""], CHAR_LF, 233>>}

\* The number of nodes of a value tree.
RECURSIVE Size(_)
Size(v) ==
    IF v.t = "Array" THEN
        IF v.arr = << >> THEN 1
        ELSE Size(v.arr[1]) + Size(Value_Array(Tail(v.arr)))
    ELSE IF v.t = "Object" THEN
        IF v.obj = << >> THEN 1
        ELSE Size(v.obj[1][2]) + Size(Value_Object(Tail(v.obj)))
    ELSE 1

InitRoundTrip ==
    /\ input = << >>
    /\ state = State_new(input)
    /\ result = NoResult
    /\ value \in Leaves
    /\ output = None

\* The caller is still building: nothing is written yet and the tree may
\* grow.
Building == output = None /\ Size(value) < MaxSize

\* Value::Array(vec![value])
WrapArray ==
    /\ Building
    /\ value' = Value_Array(<<value>>)
    /\ UNCHANGED <<input, state, result, output>>

\* Value::Object(Obj::from([(key, value)]))
WrapObject(key) ==
    /\ Building
    /\ value' = Value_Object(Obj_insert(Obj_new, key, value))
    /\ UNCHANGED <<input, state, result, output>>

\* The caller pushes an element on its array (Vec::push).
Push(v) ==
    /\ Building
    /\ value.t = "Array"
    /\ value' = Value_Array(Append(value.arr, v))
    /\ UNCHANGED <<input, state, result, output>>

\* FromStr::from_str of the text written; the caller keeps its value to
\* compare.
Reparse ==
    /\ output.some
    /\ result = NoResult
    /\ input' = output.val
    /\ result' = parse(output.val)
    /\ state' = result'.st
    /\ UNCHANGED <<value, output>>

NextRoundTrip ==
    \/ WrapArray
    \/ \E key \in AddedKeys : WrapObject(key)
    \/ \E v \in AddedLeaves : Push(v)
    \/ \E key \in AddedKeys, v \in AddedLeaves : Building /\ Insert(key, v)
    \/ \E pretty \in BOOLEAN : Display(pretty)
    \/ Reparse

SpecRoundTrip == InitRoundTrip /\ [][NextRoundTrip]_vars

\* C1: for every value tree, parsing the text written for it, compact or
\* pretty, returns Ok of a value equal to it; every text written is
\* accepted by the parser.
RoundTrip ==
    (output.some /\ result # NoResult) =>
        /\ result.ok
        /\ Value_eq(result.val, value)
        /\ state.chars = << >>

\* An object of a key with a quote, a line feed and a non-ASCII char, that
\* holds an array of a number, written pretty and parsed back.
RoundTripWitness ==
    /\ value = Value_Object(<< << <<Ch["\""], CHAR_LF, 233>>,
                                 Value_Array(<<Value_Number(
                                     [inf |-> FALSE, neg |-> TRUE,
                                      digits |-> <<5, 6>>, sci |-> -77])>>) >> >>)
    /\ output = Some(fmt(value, TRUE))
    /\ result # NoResult
    /\ result.ok
    /\ result.val = value


(***************************************************************************)
(* White space around the input: the caller parses a text and, when it is  *)
(* accepted, parses it again with white space put before and after it.     *)
(***************************************************************************)
MaxCoreTokens == 3

MaxPadding == 2

\* A digit, a minus sign, brackets, a comma, null, a string that is one
\* space, an empty object, and a space.
CoreTokens ==
    { Lit(<<"1">>), Lit(<<"-">>), Lit(<<"[">>), Lit(<<"]">>), Lit(<<",">>),
      Lit(<<"n", "u", "l", "l">>), Lit(<<"\"", " ", "\"">>),
      Lit(<<"{", "}">>), Lit(<<" ">>) }

InitPadding == InitInput(Texts(CoreTokens, MaxCoreTokens))

\* Space, tab, LF and CR.
PaddingChars == {Ch[" "], CHAR_TAB, CHAR_LF, CHAR_CR}

Paddings == Texts({<<c>> : c \in PaddingChars}, MaxPadding)

\* text begins or ends with white space.
Padded(text) ==
    text # << >> /\ (text[1] \in PaddingChars \/ text[Len(text)] \in PaddingChars)

\* FromStr::from_str of the accepted input with white space before it and
\* after it; the caller keeps the value of the input to compare.
Surround ==
    /\ result # NoResult
    /\ result.ok
    /\ ~Padded(input)
    /\ \E w1 \in Paddings, w2 \in Paddings :
           /\ input' = w1 \o input \o w2
           /\ result' = parse(input')
           /\ state' = result'.st
    /\ UNCHANGED <<value, output>>

NextPadding ==
    \/ FromStr
    \/ Surround

SpecPadding == InitPadding /\ [][NextPadding]_vars

\* C13: when the input is accepted with the value v, the input with
\* spaces, tabs, LFs and CRs before it and after it is accepted with the
\* value v too.
WhitespaceIgnored ==
    value # NoValue => result # NoResult /\ result.ok /\ result.val = value

\* [1] between an LF and a space, and a CR and a tab, is the array of 1.
WhitespaceIgnoredWitness ==
    /\ input = <<CHAR_LF, Ch[" "]>> \o Lit(<<"[", "1", "]">>) \o <<CHAR_CR, CHAR_TAB>>
    /\ result # NoResult
    /\ result.ok
    /\ result.val = Value_Array(<<NumberOf(Lit(<<"1">>))>>)
    /\ value = result.val

(***************************************************************************)
(* Inputs that end early: a literal cut short, arrays, objects, strings    *)
(* and escapes left open, numbers that lack a digit, over several lines.   *)
(***************************************************************************)
MaxEofTokens == 4

EofTokens ==
    { Lit(<<"n", "u", "l">>), Lit(<<"[">>), Lit(<<"{", "\"", "k", "\"">>),
      Lit(<<":">>), Lit(<<"\"", "a">>), Lit(<<"\\", "u", "0">>),
      Lit(<<"1", ".">>), Lit(<<",">>), <<CHAR_LF>>, Lit(<<"-">>) }

InitEof == InitInput(Texts(EofTokens, MaxEofTokens))

SpecEof == InitEof /\ [][FromStr]_vars

\* The result is the error PrematureEof.
IsPrematureEof ==
    result # NoResult /\ ~result.ok /\ result.err.kind = "PrematureEof"

\* C14: when the result is PrematureEof, every char of the input has been
\* consumed and the position of the error is just past the last char:
\* line = 1 + the LFs of the input, column = 1 + the chars after its last
\* LF.
EofAtEnd ==
    IsPrematureEof =>
        /\ state.chars = << >>
        /\ result.err.position.line
             = 1 + Cardinality({j \in 1..Len(input) : input[j] = CHAR_LF})
        /\ result.err.position.column
             = 1 + Cardinality({j \in 1..Len(input) :
                                   \A k \in j..Len(input) : input[k] # CHAR_LF})

\* An array left open on its first line and an object left open after the
\* colon on its second: the end is at line 2 column 6.
EofAtEndWitness ==
    /\ input = <<Ch["["], CHAR_LF>> \o Lit(<<"{", "\"", "k", "\"", ":">>)
    /\ IsPrematureEof
    /\ result.err.position = [line |-> 2, column |-> 6]

(***************************************************************************)
(* The expectations of skip_char: the caller parses texts that take the    *)
(* parser through every place where it skips a char, and scans them char   *)
(* by char.                                                                *)
(***************************************************************************)
MaxAssertTokens == 3

\* An open string, a quote, an escaped line feed, an open string with a
\* high surrogate, a low surrogate and a closing quote, an escape cut
\* short, a space, brackets, an object up to its first value, a comma,
\* null, a number with all its parts, and a char that starts no value.
AssertTokens ==
    { Lit(<<"\"", "a">>), Lit(<<"\"">>), Lit(<<"\\", "n">>),
      Lit(<<"\"", "\\", "u", "D", "8", "3", "D">>),
      Lit(<<"\\", "u", "D", "E", "0", "0", "\"">>),
      Lit(<<"\\", "u", "0", "0">>), Lit(<<" ">>), Lit(<<"[">>), Lit(<<"]">>),
      Lit(<<"{", "\"", "k", "\"", ":">>), Lit(<<"}">>), Lit(<<",">>),
      Lit(<<"n", "u", "l", "l">>), Lit(<<"-", "1", ".", "5", "e", "3">>),
      Lit(<<"x">>) }

InitAssert == InitInput(Texts(AssertTokens, MaxAssertTokens))

NextAssert ==
    \/ FromStr
    \/ Skip

SpecAssert == InitAssert /\ [][NextAssert]_vars

\* C15: parsing any input ends in Ok or Err, and no expectation of
\* skip_char fails on the way: every skip_char(c) finds the input not
\* exhausted and c as its next char; the chars left to scan are always an
\* end of the input, and a scan step leaves all of them but the first.
NoAssertionTrips ==
    [][/\ state'.asserts
       /\ result' # NoResult => result'.ok \in BOOLEAN
       /\ state'.chars = Drop(input', Len(input') - Len(state'.chars))
       /\ Skip => state'.chars = Tail(state.chars)]_vars

\* The string of a surrogate pair is parsed to the end, as U+1F600, with
\* every expectation met.
NoAssertionTripsWitness ==
    /\ input = Lit(<<"\"", "\\", "u", "D", "8", "3", "D",
                     "\\", "u", "D", "E", "0", "0", "\"">>)
    /\ result # NoResult
    /\ result.ok
    /\ result.val = Value_String(<<128512>>)
    /\ state.asserts
    /\ state.chars = << >>

(***************************************************************************)
(* Strings written: the caller holds a string, or an object of one member  *)
(* whose key and value are that string, and writes it compact or pretty.   *)
(***************************************************************************)
MaxChars == 2

\* The chars with a two-char escape; control chars without one; the space,
\* the slash, a letter and DEL; chars of one byte above ASCII, and chars of
\* two and four UTF-8 bytes that are no byte.
StringChars ==
    { Ch["\""], Ch["\\"], CHAR_BS, CHAR_FF, CHAR_LF, CHAR_CR, CHAR_TAB,
      0, 11, 31, Ch[" "], Ch["/"], Ch["a"], 127, 128, 233, 255, 256, 129505 }

Strings == Texts({<<c>> : c \in StringChars}, MaxChars)

StringValues ==
    {Value_String(str) : str \in Strings}
    \cup {Value_Object(Obj_insert(Obj_new, str, Value_String(str))) :
             str \in Strings}

InitString ==
    /\ input = << >>
    /\ state = State_new(input)
    /\ result = NoResult
    /\ value \in StringValues
    /\ output = None

SpecString == InitString /\ [][\E pretty \in BOOLEAN : Display(pretty)]_vars

\* The lower case hex digit of n < 16.
LowerHex(n) ==
    Lit(<<"0", "1", "2", "3", "4", "5", "6", "7", "8", "9",
          "a", "b", "c", "d", "e", "f">>)[n + 1]

\* What a char of a string is to be written as.
Escaped(c) ==
    CASE c = Ch["\""] -> Lit(<<"\\", "\"">>)
      [] c = Ch["\\"] -> Lit(<<"\\", "\\">>)
      [] c = CHAR_BS -> Lit(<<"\\", "b">>)
      [] c = CHAR_FF -> Lit(<<"\\", "f">>)
      [] c = CHAR_LF -> Lit(<<"\\", "n">>)
      [] c = CHAR_CR -> Lit(<<"\\", "r">>)
      [] c = CHAR_TAB -> Lit(<<"\\", "t">>)
      [] OTHER ->
            IF c < 32
            THEN Lit(<<"\\", "u", "0", "0">>)
                 \o <<LowerHex(c \div 16), LowerHex(c % 16)>>
            ELSE <<c>>

\* What a string is to be written as, quotes included.
RECURSIVE EscapedChars(_)
EscapedChars(str) ==
    IF str = << >> THEN << >> ELSE Escaped(Head(str)) \o EscapedChars(Tail(str))

EscapedString(str) == Lit(<<"\"">>) \o EscapedChars(str) \o Lit(<<"\"">>)

\* No char of text is a raw control char.
NoRawControl(text) == \A i \in 1..Len(text) : text[i] >= 32

\* C11: a string, written as a value or as the key of an object, is a
\* quote, then for each of its chars the two-char escape of a quote, a
\* backslash, BS, FF, LF, CR or TAB, else \u00XX in lower case hex for a
\* char below 0x20, else the char itself ('/', DEL and the chars above
\* ASCII included), then a quote; no raw char below 0x20 is in the text
\* written for a string.
StringEscaping ==
    output.some =>
        /\ value.t = "String" =>
               /\ output.val = EscapedString(value.str)
               /\ NoRawControl(output.val)
        /\ value.t = "Object" =>
               With(EscapedString(value.obj[1][1]), LAMBDA written:
                    \/ /\ output.val = Lit(<<"{">>) \o written \o Lit(<<":">>)
                                       \o written \o Lit(<<"}">>)
                       /\ NoRawControl(output.val)
                    \/ output.val = <<Ch["{"], CHAR_LF>>
                                    \o Lit(<<" ", " ", " ", " ">>)
                                    \o written \o Lit(<<":", " ">>) \o written
                                    \o <<CHAR_LF, Ch["}"]>>)

\* The string of the unit separator and DEL is written "\u001f" and DEL.
StringEscapingWitness ==
    /\ value = Value_String(<<31, 127>>)
    /\ output = Some(Lit(<<"\"", "\\", "u", "0", "0", "1", "f">>)
                     \o <<127, Ch["\""]>>)

(***************************************************************************)
(* The layout of a text written, read from the text alone: its white space *)
(* outside the strings, and the nesting depth where each run of it stands. *)
(***************************************************************************)
\* The indices of text outside its strings; the quotes of a string are not
\* outside.
OutsideIndices(text) ==
    With(StringQuotes(text), LAMBDA quotes:
         {i \in 1..Len(text) : i \notin quotes /\ OutsideStrings(quotes, i)})

\* The indices of the quotes that close a string of text.
ClosingQuotes(text) ==
    With(StringQuotes(text), LAMBDA quotes:
         {i \in quotes : ~OutsideStrings(quotes, i)})

\* The number of arrays and objects open after index i of text, whose
\* indices outside the strings are outs.
DepthAfter(text, outs, i) ==
    Cardinality({j \in outs : j <= i /\ text[j] \in {Ch["["], Ch["{"]}})
    - Cardinality({j \in outs : j <= i /\ text[j] \in {Ch["]"], Ch["}"]}})

\* The index of the first char after index i that is no white space, or
\* one past the text.
GapEnd(text, i) ==
    CHOOSE j \in (i + 1)..(Len(text) + 1) :
        /\ j = Len(text) + 1 \/ text[j] \notin WS
        /\ \A k \in (i + 1)..(j - 1) : text[k] \in WS

\* A newline, then 4 spaces for each of depth levels.
NewLine(depth) == <<CHAR_LF>> \o [k \in 1..(4 * depth) |-> Ch[" "]]

\* The white space the pretty layout has between the token char at index i
\* and the next token char: a newline and the indent of the inner depth
\* after the bracket that opens a non-empty array or object and after a
\* comma, one space after a colon, a newline and the indent of the outer
\* depth before a closing bracket that does not close an empty array or
\* object, and nothing elsewhere.
PrettyGap(text, outs, i) ==
    With(GapEnd(text, i), LAMBDA j:
    With(j <= Len(text) /\ text[j] \in {Ch["]"], Ch["}"]}, LAMBDA closes:
         IF i \in outs /\ text[i] \in {Ch["["], Ch["{"]}
         THEN (IF closes THEN << >> ELSE NewLine(DepthAfter(text, outs, i)))
         ELSE IF i \in outs /\ text[i] = Ch[","]
         THEN NewLine(DepthAfter(text, outs, i))
         ELSE IF i \in outs /\ text[i] = Ch[":"]
         THEN <<Ch[" "]>>
         ELSE IF closes THEN NewLine(DepthAfter(text, outs, i) - 1)
         ELSE << >>))

\* The white space of text outside its strings is that of the pretty
\* layout, and no more.
PrettyLaidOut(text) ==
    With(OutsideIndices(text), LAMBDA outs:
         /\ text # << >> => text[1] \notin WS
         /\ \A i \in {k \in outs : text[k] \notin WS} \cup ClosingQuotes(text) :
                SubSeq(text, i + 1, GapEnd(text, i) - 1) = PrettyGap(text, outs, i))

\* text has no white space outside its strings.
NoSpaceOutside(text) == \A i \in OutsideIndices(text) : text[i] \notin WS

\* C12: a text written pretty has, outside its strings, exactly this white
\* space: a newline and 4 * (d + 1) spaces before every element or member
\* of a non-empty array or object at depth d, a newline and 4 * d spaces
\* before its closing bracket, and one space after the colon of a key; an
\* empty array or object is written [] or {} in both modes; a text written
\* compact has no white space outside its strings.
PrettyLayout ==
    output.some =>
        /\ output.val = fmt(value, TRUE) => PrettyLaidOut(output.val)
        /\ output.val = fmt(value, FALSE) => NoSpaceOutside(output.val)
        /\ value = Value_Array(<< >>) => output.val = Lit(<<"[", "]">>)
        /\ value = Value_Object(Obj_new) => output.val = Lit(<<"{", "}">>)

\* [[null]] written pretty: null on a line of its own after 8 spaces.
PrettyLayoutWitness ==
    /\ value = Value_Array(<<Value_Array(<<Value_Null>>)>>)
    /\ output = Some(<<Ch["["], CHAR_LF>> \o Lit(<<" ", " ", " ", " ", "[">>)
                     \o <<CHAR_LF>>
                     \o Lit(<<" ", " ", " ", " ", " ", " ", " ", " ",
                              "n", "u", "l", "l">>)
                     \o <<CHAR_LF>> \o Lit(<<" ", " ", " ", " ", "]">>)
                     \o <<CHAR_LF, Ch["]"]>>)
=============================================================================
